---- MODULE Spec2Model ----
(***************************************************************************)
(* AbstractProvider (node-mongodb-provider): the callback discipline of    *)
(* the CRUD operations and of ensureIndexes, over a driver that answers    *)
(* every request once, synchronously or on a later turn of the event loop. *)
(***************************************************************************)
EXTENDS Integers, Sequences, FiniteSets, TLC

\* Bounds of the model.
MaxCalls == 2
MaxIndexes == 2
MaxDocs == 2
MaxWrites == 1

(***************************************************************************)
(* JavaScript values. Every value is a record of one shape, so that any    *)
(* two values can be compared.                                             *)
(***************************************************************************)
Val(t, n, items, msg) == [t |-> t, n |-> n, items |-> items, msg |-> msg]
Null == Val("null", 0, <<>>, "")
Undefined == Val("undefined", 0, <<>>, "")
Num(k) == Val("number", k, <<>>, "")
Doc(k) == Val("object", k, <<>>, "")
Arr(s) == Val("array", 0, s, "")
Error(m) == Val("error", 0, <<>>, m)
Handle(c) == Val("collection", c, <<>>, "")

\* JavaScript truthiness: null, undefined and 0 are falsy.
Truthy(v) == ~(v.t \in {"null", "undefined"}) /\ ~(v.t = "number" /\ v.n = 0)

\* v.length
length(v) == IF v.t = "array" THEN Num(Len(v.items)) ELSE Undefined

\* v[0]
first(v) == IF v.t = "array" /\ Len(v.items) > 0 THEN Doc(v.items[1]) ELSE Undefined

\* arguments[i - 1] of a call made with the argument list args
Arg(args, i) == IF i <= Len(args) THEN args[i] ELSE Undefined

\* {a..., b...}: the properties of b laid over those of a
Assign(a, b) == [k \in (DOMAIN a) \cup (DOMAIN b) |-> IF k \in DOMAIN b THEN b[k] ELSE a[k]]

\* The names the utils module exports.
utils == {"tick", "toObjectID"}

(***************************************************************************)
(* The completion handlers of the operations: the argument list each one   *)
(* passes to the caller's callback, given the driver's (err, result).      *)
(***************************************************************************)
find(err, result) ==
    IF Truthy(err) THEN <<err>> ELSE <<Null, result>>

\* findOne without its check of the document.
findOne_unchecked(err, doc) ==
    IF Truthy(err) THEN <<err>> ELSE <<Null, doc>>

findOne(err, doc) ==
    IF Truthy(err) THEN <<err>>
    ELSE IF ~Truthy(doc) THEN <<Error("findOne: document not found")>>
    ELSE <<Null, doc>>

\* findOnly with the check of findOne.
findOnly_checked(err, doc) ==
    IF Truthy(err) THEN <<err>>
    ELSE IF ~Truthy(doc) THEN <<Error("findOnly: document not found")>>
    ELSE <<Null, doc>>

findOnly(err, doc) ==
    IF Truthy(err) THEN <<err>> ELSE <<Null, doc>>

\* aggregate hands the caller's callback itself to the driver.
aggregate(err, result) == <<err, result>>

\* create without its check of the inserted documents.
create_unchecked(err, result) ==
    IF Truthy(err) THEN <<err>> ELSE <<Null, result>>

create(err, result) ==
    IF Truthy(err) THEN <<err>>
    ELSE IF ~Truthy(result) \/ ~Truthy(length(result)) THEN <<Error("create: documents not created")>>
    ELSE <<Null, result>>

createOne(err, result) ==
    IF Truthy(err) THEN <<err>>
    ELSE IF ~Truthy(result) \/ ~Truthy(length(result)) THEN <<Error("createOne: document not created")>>
    ELSE <<Null, first(result)>>

\* update delivering the number of affected documents as its result.
update_counting(err, numAffected) ==
    IF Truthy(err) THEN <<err>>
    ELSE IF ~Truthy(numAffected) THEN <<Error("update: documents not updated")>>
    ELSE <<Null, numAffected>>

update(err, numAffected) ==
    IF Truthy(err) THEN <<err>>
    ELSE IF ~Truthy(numAffected) THEN <<Error("update: documents not updated")>>
    ELSE <<Null>>

updateOne(err, numAffected) ==
    IF Truthy(err) THEN <<err>>
    ELSE IF ~Truthy(numAffected) THEN <<Error("updateOne: document not updated")>>
    ELSE <<Null>>

findAndUpdate(err, doc) ==
    IF Truthy(err) THEN <<err>>
    ELSE IF ~Truthy(doc) THEN <<Error("findAndUpdate: document not found")>>
    ELSE <<Null, doc>>

\* remove that does not look at the number of removed documents.
remove_unchecked(err, numRemoved) ==
    IF Truthy(err) THEN <<err>> ELSE <<Null>>

remove(err, numRemoved) ==
    IF Truthy(err) THEN <<err>>
    ELSE IF ~Truthy(numRemoved) THEN <<Error("remove: documents not removed")>>
    ELSE <<Null>>

removeOnly(err, numRemoved) ==
    IF Truthy(err) THEN <<err>> ELSE <<Null, numRemoved>>

findAndRemove(err, doc) ==
    IF Truthy(err) THEN <<err>>
    ELSE IF ~Truthy(doc) THEN <<Error("findAndRemove: document not found")>>
    ELSE <<Null, doc>>

\* count reporting an error of its own in place of the driver's.
count_wrapping(err, n) ==
    IF Truthy(err) THEN <<Error("count: failed")>> ELSE <<Null, n>>

count(err, n) ==
    IF Truthy(err) THEN <<err>> ELSE <<Null, n>>

Operations ==
    {"find", "findOne", "findOnly", "aggregate", "create", "createOne", "update",
     "updateOne", "findAndUpdate", "remove", "removeOnly", "findAndRemove", "count"}

\* The handler of operation op applied to the driver's (err, result).
Handler(op, err, result) ==
    CASE op = "find" -> find(err, result)
      [] op = "findOne" -> findOne(err, result)
      [] op = "findOnly" -> findOnly(err, result)
      [] op = "aggregate" -> aggregate(err, result)
      [] op = "create" -> create(err, result)
      [] op = "createOne" -> createOne(err, result)
      [] op = "update" -> update(err, result)
      [] op = "updateOne" -> updateOne(err, result)
      [] op = "findAndUpdate" -> findAndUpdate(err, result)
      [] op = "remove" -> remove(err, result)
      [] op = "removeOnly" -> removeOnly(err, result)
      [] op = "findAndRemove" -> findAndRemove(err, result)
      [] op = "count" -> count(err, result)

\* Whether the operation's completion handler is handed to the driver inside tick().
Ticked(op) == op \notin {"aggregate", "findAndRemove", "count"}

\* The driver methods, with remove counting the documents instead of removing them.
Method_counting(op) ==
    CASE op \in {"find"} -> "find"
      [] op \in {"findOne", "findOnly"} -> "findOne"
      [] op = "aggregate" -> "aggregate"
      [] op \in {"create", "createOne"} -> "insert"
      [] op \in {"update", "updateOne"} -> "update"
      [] op = "findAndUpdate" -> "findAndModify"
      [] op = "removeOnly" -> "remove"
      [] op = "remove" -> "count"
      [] op = "findAndRemove" -> "findAndRemove"
      [] op = "count" -> "count"
      [] op = "ensureIndexes" -> "ensureIndex"

\* The driver method each operation calls on the collection handle.
Method(op) ==
    CASE op \in {"find"} -> "find"
      [] op \in {"findOne", "findOnly"} -> "findOne"
      [] op = "aggregate" -> "aggregate"
      [] op \in {"create", "createOne"} -> "insert"
      [] op \in {"update", "updateOne"} -> "update"
      [] op = "findAndUpdate" -> "findAndModify"
      [] op \in {"remove", "removeOnly"} -> "remove"
      [] op = "findAndRemove" -> "findAndRemove"
      [] op = "count" -> "count"
      [] op = "ensureIndexes" -> "ensureIndex"

NoOptions == [k \in {} |-> 0]

\* Evaluating utils.extend({w: 1}, options) throws when utils exports no extend.
ExtendThrows == "extend" \notin utils

\* The options argument of the driver request of each operation.
Options(op) ==
    CASE op \in {"create", "createOne", "remove", "removeOnly", "findAndRemove"} -> [w |-> 1]
      [] op = "update" -> [w |-> 1, multi |-> TRUE]
      [] op = "updateOne" -> Assign([w |-> 1], NoOptions)
      [] op = "findAndUpdate" -> [new |-> TRUE, w |-> 1]
      [] OTHER -> NoOptions

\* What the driver can answer to a request of the given method when it succeeds.
Results(method) ==
    CASE method \in {"find", "aggregate"} -> {Arr(<<>>), Arr(<<1>>)}
      [] method \in {"findOne", "findAndModify", "findAndRemove"} -> {Null, Doc(1)}
      [] method = "insert" -> {Null} \cup {Arr([i \in 1..n |-> i]) : n \in 0..MaxDocs}
      [] method \in {"update", "remove", "count"} -> {Num(0), Num(1)}
      [] method = "ensureIndex" -> {Undefined}

DriverError == Error("driver")
CollectionError == Error("collection")

\* Every (err, result) the driver can deliver for a request of the given method.
Replies(method) ==
    {<<DriverError, Undefined>>} \cup {<<Null, r>> : r \in Results(method)}

\* tick whose catch block throws err itself instead of scheduling the throw.
tick_undeferred(callback, this, arguments) ==
    [kind |-> "tick",
     applied |-> [this |-> this, arguments |-> arguments],
     thrown |-> callback.thrown,
     nextTick |-> <<>>]

(***************************************************************************)
(* tick(callback): the wrapper the driver invokes with a receiver and an   *)
(* argument list. callback.thrown is what callback.apply throws (empty:    *)
(* it returns). The result says what the callback was applied to, what     *)
(* propagates to the invoker and what is handed to process.nextTick.       *)
(***************************************************************************)
tick(callback, this, arguments) ==
    [kind |-> "tick",
     applied |-> [this |-> this, arguments |-> arguments],
     thrown |-> <<>>,
     nextTick |-> callback.thrown]

\* A function handed to the driver as it is, with no wrapper around it.
plain(callback, this, arguments) ==
    [kind |-> "plain",
     applied |-> [this |-> this, arguments |-> arguments],
     thrown |-> callback.thrown,
     nextTick |-> <<>>]

CallbackError == Error("thrown by the caller's callback")
TypeError == Error("TypeError: utils.extend is not a function")
DriverThis == "driver"

VARIABLES
    db,          \* this.db: the connection handle, "null" before construction
    collection,  \* this.collection: the collection name
    indexes,     \* this.indexes: the declared index specs
    declared,    \* the value of this.indexes when the provider was defined
    calls,       \* the operation calls made so far, in call order
    ticks,       \* the process.nextTick queue
    stack,       \* the call whose code is on the call stack, and what started it
    documents,   \* how many documents of the collection match the conditions of the calls
    log,         \* the requests the collection has executed, in order
    other        \* this.db of another instance of the same subclass, "null" before its construction

vars == <<db, collection, indexes, declared, calls, ticks, stack, documents, log, other>>

Idle == [call |-> 0, root |-> "idle"]

\* One declared index spec: [keyPattern, options].
IndexSpec(i) ==
    [key |-> i,
     options |-> IF i % 2 = 1 THEN [unique |-> TRUE] ELSE [w |-> 0, background |-> FALSE, sparse |-> TRUE]]

\* What a subclass can put in prototype.indexes: nothing (null), something that
\* is no list, or a list of specs.
IndexDeclarations ==
    {[isArray |-> FALSE, items |-> <<>>]}
        \cup {[isArray |-> TRUE, items |-> [i \in 1..n |-> IndexSpec(i)]] : n \in {0, MaxIndexes}}

Init ==
    /\ db = "null"
    /\ collection = "users"
    /\ indexes \in IndexDeclarations
    /\ declared = indexes
    /\ calls = <<>>
    /\ ticks = <<>>
    /\ stack = Idle
    /\ documents = 0
    /\ log = <<>>
    /\ other = "null"

\* The empty hook the constructor calls.
_checkIndexExisting == TRUE

\* new AbstractProvider(db)
AbstractProvider ==
    /\ db = "null"
    /\ db' = "connection"
    /\ _checkIndexExisting
    /\ UNCHANGED <<collection, indexes, declared, calls, ticks, stack, documents, log, other>>

\* _getCollection without strict mode.
_getCollection_lax == [name |-> collection, options |-> [w |-> 1]]

\* The request _getCollection sends to the connection.
_getCollection == [name |-> collection, options |-> [w |-> 1, strict |-> TRUE]]

NewCall(op, hasCb) ==
    [this |-> "provider", op |-> op, hasCb |-> hasCb, length |-> 0, phase |-> "acquiring",
     acq |-> <<_getCollection>>, reqs |-> <<>>, wrap |-> <<>>, cb |-> <<>>,
     caught |-> 0, raised |-> 0, escaped |-> "none"]

CanCall ==
    /\ db # "null"
    /\ stack = Idle
    /\ ticks = <<>>
    /\ Len(calls) < MaxCalls

\* How many documents the call passes to the operation: create takes a list
\* of documents, createOne one document, the others conditions.
Docs(op) ==
    CASE op = "create" -> 1..MaxDocs
      [] op = "createOne" -> {1}
      [] OTHER -> {0}

\* provider.<op>(..., callback): every CRUD operation starts by _getCollection.
Call(op) ==
    /\ CanCall
    /\ \E docs \in Docs(op) :
           calls' = Append(calls, [NewCall(op, TRUE) EXCEPT !.length = docs])
    /\ stack' = [call |-> Len(calls) + 1, root |-> "call"]
    /\ UNCHANGED <<db, collection, indexes, declared, ticks, documents, log, other>>

\* The effect of a handler: the argument lists it calls the caller's callback
\* with, the driver requests it issues, and what its own code throws.
Effect(callback, request, throw) ==
    [callback |-> callback, request |-> request, throw |-> throw]

\* The function passed to _getCollection without its first line, if (err) return callback(err).
acquired_unchecked(op, err, handle) ==
    Effect(<<>>, <<[method |-> Method(op), key |-> 0, options |-> Options(op), handle |-> handle]>>, <<>>)

\* The function every CRUD operation passes to _getCollection.
acquired(op, err, handle) ==
    IF Truthy(err) THEN Effect(<<<<err>>>>, <<>>, <<>>)
    ELSE IF op = "updateOne" /\ ExtendThrows THEN Effect(<<>>, <<>>, <<TypeError>>)
    ELSE Effect(<<>>, <<[method |-> Method(op), key |-> 0, options |-> Options(op), handle |-> handle]>>, <<>>)

\* The function every CRUD operation passes to the driver method.
completed(op, err, result) == Effect(<<Handler(op, err, result)>>, <<>>, <<>>)

\* ensureIndexes: done(err)
done(hasCb, err) == IF hasCb THEN <<<<err>>>> ELSE <<>>

\* create() passing the options of the spec as they were declared.
ensureIndexes_create_declared(ix, hasCb, handle) ==
    IF Len(ix.items) = 0
    THEN [indexes |-> ix, effect |-> Effect(done(hasCb, Undefined), <<>>, <<>>)]
    ELSE LET index == Head(ix.items)
         IN [indexes |-> [ix EXCEPT !.items = Tail(@)],
             effect |-> Effect(<<>>, <<[method |-> "ensureIndex", key |-> index.key,
                                        options |-> index.options, handle |-> handle]>>, <<>>)]

\* ensureIndexes: create(), on the list ix that both the call and the provider hold
ensureIndexes_create(ix, hasCb, handle) ==
    IF Len(ix.items) = 0
    THEN [indexes |-> ix, effect |-> Effect(done(hasCb, Undefined), <<>>, <<>>)]
    ELSE LET index == Head(ix.items)
             options == Assign(index.options, [w |-> 1, background |-> TRUE])
         IN [indexes |-> [ix EXCEPT !.items = Tail(@)],
             effect |-> Effect(<<>>, <<[method |-> "ensureIndex", key |-> index.key,
                                        options |-> options, handle |-> handle]>>, <<>>)]

\* ensureIndexes: the function passed to _getCollection
ensureIndexes_acquired(ix, hasCb, err, handle) ==
    IF Truthy(err) THEN [indexes |-> ix, effect |-> Effect(done(hasCb, err), <<>>, <<>>)]
    ELSE ensureIndexes_create(ix, hasCb, handle)

\* ensureIndexes: the function passed to collection.ensureIndex
ensureIndexes_ensured(ix, hasCb, err, handle) ==
    IF Truthy(err) THEN [indexes |-> ix, effect |-> Effect(done(hasCb, err), <<>>, <<>>)]
    ELSE ensureIndexes_create(ix, hasCb, handle)

\* ensureIndexes with nothing to create, calling back at once: callback && callback()
ensureIndexes_empty_undeferred(hasCb) ==
    [acq |-> <<>>, callback |-> IF hasCb THEN <<<<>>>> ELSE <<>>, nextTick |-> <<>>]

\* ensureIndexes with nothing to create: callback && process.nextTick(callback)
ensureIndexes_empty(hasCb) ==
    [acq |-> <<>>, callback |-> <<>>, nextTick |-> IF hasCb THEN <<"callback">> ELSE <<>>]

\* One invocation of the caller's callback.
Invocation(args, inCallTurn, throws) ==
    [err |-> Arg(args, 1), res |-> Arg(args, 2), argc |-> Len(args),
     inCallTurn |-> inCallTurn, threw |-> throws]

\* What running a handler with effect eff throws, for a caller's callback that
\* throws or not.
Thrown(throws, eff) ==
    IF eff.throw # <<>> THEN eff.throw
    ELSE IF eff.callback # <<>> /\ throws THEN <<CallbackError>>
    ELSE <<>>

Rethrows(c, errs) == [i \in 1..Len(errs) |-> [kind |-> "throw", call |-> c, err |-> errs[i]]]

\* The call record after the driver invoked, with the receiver and arguments
\* of given, the wrapper outcome w around a handler with effect eff.
Settle(r, given, w, eff, inCallTurn, throws) ==
    [r EXCEPT !.cb = @ \o [i \in 1..Len(eff.callback) |->
                               Invocation(eff.callback[i], inCallTurn, throws)],
              !.reqs = @ \o eff.request,
              !.wrap = Append(@, [kind |-> w.kind, this |-> given.this,
                                  arguments |-> given.arguments, applied |-> w.applied,
                                  threw |-> Thrown(throws, eff) # <<>>,
                                  propagated |-> w.thrown # <<>>,
                                  scheduled |-> Len(w.nextTick)]),
              !.caught = @ + Len(w.nextTick),
              !.phase = IF eff.request # <<>> THEN "operating" ELSE "done"]

\* The body of ensureIndexes up to its return, run on the instance this:
\* this.indexes is the list on the prototype of the subclass, the same list
\* for every instance.
ensureIndexes_called(this, hasCb) ==
    /\ LET c == Len(calls) + 1
           list == IF indexes.isArray THEN indexes.items ELSE <<>>
           e == ensureIndexes_empty(hasCb)
           r == [NewCall("ensureIndexes", hasCb) EXCEPT !.this = this, !.length = Len(list)]
       IN IF Len(list) = 0
          THEN /\ calls' = Append(calls,
                     [r EXCEPT !.acq = e.acq,
                               !.cb = [i \in 1..Len(e.callback) |->
                                          Invocation(e.callback[i], TRUE, FALSE)],
                               !.phase = IF e.nextTick # <<>> THEN "nextTick"
                                         ELSE IF e.acq # <<>> THEN "acquiring" ELSE "done"])
               /\ ticks' = ticks \o [i \in 1..Len(e.nextTick) |->
                                        [kind |-> e.nextTick[i], call |-> c, err |-> Undefined]]
          ELSE /\ calls' = Append(calls, r)
               /\ ticks' = ticks
    /\ stack' = [call |-> Len(calls) + 1, root |-> "call"]
    /\ UNCHANGED <<db, collection, indexes, declared, documents, log, other>>

\* provider.ensureIndexes(callback?)
ensureIndexes(hasCb) ==
    /\ CanCall
    /\ ensureIndexes_called("provider", hasCb)

\* When the driver may answer the outstanding request of call c: at once, while
\* the code that issued it is still on the stack, or on a later turn, which
\* starts only after the nextTick queue has drained.
MayReply(c, sync) ==
    IF sync THEN stack.call = c ELSE stack = Idle /\ ticks = <<>>

\* The driver answers db.collection(name, options, tick(callback)).
CollectionReply(c, sync, err, throws) ==
    /\ c \in 1..Len(calls)
    /\ calls[c].phase = "acquiring"
    /\ MayReply(c, sync)
    /\ LET r == calls[c]
           handle == IF Truthy(err) THEN Undefined ELSE Handle(c)
           given == [this |-> DriverThis, arguments |-> <<err, handle>>]
           args == tick([thrown |-> <<>>], given.this, given.arguments).applied.arguments
           out == IF r.op = "ensureIndexes"
                  THEN ensureIndexes_acquired(indexes, r.hasCb, Arg(args, 1), Arg(args, 2))
                  ELSE [indexes |-> indexes, effect |-> acquired(r.op, Arg(args, 1), Arg(args, 2))]
           w == tick([thrown |-> Thrown(throws, out.effect)], given.this, given.arguments)
       IN /\ throws => out.effect.callback # <<>>
          /\ calls' = [calls EXCEPT ![c] =
                 Settle(r, given, w, out.effect, sync /\ stack.root = "call", throws)]
          /\ ticks' = ticks \o Rethrows(c, w.nextTick)
          /\ indexes' = out.indexes
    /\ stack' = IF calls'[c].phase = "done" THEN Idle
                ELSE IF sync THEN stack ELSE [call |-> c, root |-> "reply"]
    /\ UNCHANGED <<db, collection, declared, documents, log, other>>

\* An acknowledged insert reports no document, or every document it was given.
Inserted(r, reply) ==
    (Method(r.op) = "insert" /\ Truthy(reply[2]) /\ Truthy(length(reply[2]))) =>
        length(reply[2]) = Num(r.length)

\* The driver invokes the completion handler of the operation, inside tick()
\* or plain, with reply.
Replied(c, sync, reply, throws) ==
    /\ c \in 1..Len(calls)
    /\ calls[c].phase = "operating"
    /\ MayReply(c, sync)
    /\ LET r == calls[c]
           given == [this |-> DriverThis, arguments |-> reply]
           ticked == r.op = "ensureIndexes" \/ Ticked(r.op)
           probe == IF ticked THEN tick([thrown |-> <<>>], given.this, given.arguments)
                    ELSE plain([thrown |-> <<>>], given.this, given.arguments)
           args == probe.applied.arguments
           handle == r.reqs[Len(r.reqs)].handle
           out == IF r.op = "ensureIndexes"
                  THEN ensureIndexes_ensured(indexes, r.hasCb, Arg(args, 1), handle)
                  ELSE [indexes |-> indexes, effect |-> completed(r.op, Arg(args, 1), Arg(args, 2))]
           callback == [thrown |-> Thrown(throws, out.effect)]
           w == IF ticked THEN tick(callback, given.this, given.arguments)
                ELSE plain(callback, given.this, given.arguments)
           \* What leaves the handler enters the driver's frame. When the driver
           \* answered at once, the frame below it is the tick() wrapper around
           \* the function passed to _getCollection.
           outer == tick([thrown |-> w.thrown], DriverThis, r.wrap[1].arguments)
           r1 == Settle(r, given, w, out.effect, sync /\ stack.root = "call", throws)
           r2 == IF w.thrown = <<>> THEN r1
                 ELSE IF sync THEN [r1 EXCEPT !.escaped = "driver",
                                              !.caught = @ + Len(outer.nextTick),
                                              !.wrap[1].threw = TRUE,
                                              !.wrap[1].propagated = outer.thrown # <<>>,
                                              !.wrap[1].scheduled = Len(outer.nextTick)]
                 ELSE [r1 EXCEPT !.escaped = "driver"]
       IN /\ throws => out.effect.callback # <<>>
          /\ calls' = [calls EXCEPT ![c] = r2]
          /\ ticks' = ticks \o Rethrows(c, w.nextTick)
                            \o (IF sync THEN Rethrows(c, outer.nextTick) ELSE <<>>)
          /\ indexes' = out.indexes
    /\ stack' = IF calls'[c].phase = "done" THEN Idle
                ELSE IF sync THEN stack ELSE [call |-> c, root |-> "reply"]
    /\ UNCHANGED <<db, collection, declared, other>>

\* The driver answers the request of the operation with anything a request
\* of its method can be answered with.
OperationReply(c, sync, reply, throws) ==
    /\ c \in 1..Len(calls)
    /\ calls[c].phase = "operating"
    /\ reply \in Replies(Method(calls[c].op))
    /\ Inserted(calls[c], reply)
    /\ Replied(c, sync, reply, throws)
    /\ UNCHANGED <<documents, log>>

\* The code on the stack returns with a request outstanding: the turn ends.
\* (A handler that finishes its call returns within its own step.)
Return ==
    /\ stack # Idle
    /\ stack' = Idle
    /\ UNCHANGED <<db, collection, indexes, declared, calls, ticks, documents, log, other>>

\* The event loop runs the head of the nextTick queue: a re-throw scheduled by
\* tick(), or the callback ensureIndexes scheduled.
NextTick(throws) ==
    /\ stack = Idle
    /\ ticks # <<>>
    /\ LET t == Head(ticks)
           r == calls[t.call]
       IN /\ throws => t.kind = "callback"
          /\ calls' = [calls EXCEPT ![t.call] =
                 IF t.kind = "throw" THEN [r EXCEPT !.raised = @ + 1]
                 ELSE [r EXCEPT !.cb = Append(@, Invocation(<<>>, FALSE, throws)),
                                !.phase = "done",
                                !.escaped = IF throws THEN "toplevel" ELSE @]]
    /\ ticks' = Tail(ticks)
    /\ UNCHANGED <<db, collection, indexes, declared, stack, documents, log, other>>

Next ==
    \/ AbstractProvider
    \/ \E op \in Operations : Call(op)
    \/ \E hasCb \in BOOLEAN : ensureIndexes(hasCb)
    \/ \E c \in 1..Len(calls), sync \in BOOLEAN, err \in {Null, CollectionError}, throws \in BOOLEAN :
           CollectionReply(c, sync, err, throws)
    \/ \E c \in 1..Len(calls), sync \in BOOLEAN, throws \in BOOLEAN :
           \E reply \in Replies(Method(calls[c].op)) : OperationReply(c, sync, reply, throws)
    \/ Return
    \/ \E throws \in BOOLEAN : NextTick(throws)

Spec == Init /\ [][Next]_vars

(***************************************************************************)
(* The same provider over a collection with contents: the driver answers   *)
(* findOne and remove with what the collection holds, and another client   *)
(* of the shared connection may insert documents in between.               *)
(***************************************************************************)
\* The driver methods that write to the collection.
Writes == {"insert", "update", "findAndModify", "remove", "findAndRemove"}

\* What the collection, holding n documents that match the conditions,
\* answers to a request of the method, and how many match afterwards.
Executed(method, n) ==
    CASE method = "findOne" -> [result |-> IF n = 0 THEN Null ELSE Doc(1), documents |-> n]
      [] method = "remove" -> [result |-> Num(n), documents |-> 0]
      [] method = "count" -> [result |-> Num(n), documents |-> n]

\* The operations called on the collection with contents.
Stored == {"findOne", "remove"}

InitCollection ==
    /\ db = "null"
    /\ collection = "users"
    /\ indexes = [isArray |-> TRUE, items |-> <<>>]
    /\ declared = indexes
    /\ calls = <<>>
    /\ ticks = <<>>
    /\ stack = Idle
    /\ documents \in 0..MaxDocs
    /\ log = <<>>
    /\ other = "null"

\* The driver fails the request of the operation, or the collection executes
\* it and the driver answers with what the collection reports.
Execute(c, sync, fails, throws) ==
    /\ c \in 1..Len(calls)
    /\ calls[c].phase = "operating"
    /\ LET request == calls[c].reqs[Len(calls[c].reqs)]
           e == Executed(request.method, documents)
       IN IF fails
          THEN /\ Replied(c, sync, <<DriverError, Undefined>>, throws)
               /\ UNCHANGED <<documents, log>>
          ELSE /\ Replied(c, sync, <<Null, e.result>>, throws)
               /\ documents' = e.documents
               /\ log' = Append(log, [call |-> c, method |-> request.method, matched |-> documents])

\* Another client inserts a document that matches the conditions.
OtherWrite ==
    /\ Cardinality({i \in 1..Len(log) : log[i].call = 0}) < MaxWrites
    /\ documents < MaxDocs
    /\ documents' = documents + 1
    /\ log' = Append(log, [call |-> 0, method |-> "insert", matched |-> 0])
    /\ UNCHANGED <<db, collection, indexes, declared, calls, ticks, stack, other>>

NextCollection ==
    \/ AbstractProvider
    \/ \E op \in Stored : Call(op)
    \/ \E c \in 1..Len(calls), sync \in BOOLEAN, err \in {Null, CollectionError}, throws \in BOOLEAN :
           CollectionReply(c, sync, err, throws)
    \/ \E c \in 1..Len(calls), sync \in BOOLEAN, fails \in BOOLEAN, throws \in BOOLEAN :
           Execute(c, sync, fails, throws)
    \/ OtherWrite
    \/ Return
    \/ \E throws \in BOOLEAN : NextTick(throws)

SpecCollection == InitCollection /\ [][NextCollection]_vars

(***************************************************************************)
(* Two instances of the same subclass, the second one built on another     *)
(* connection: each holds its own this.db, and both read collection and    *)
(* indexes from the prototype of the subclass.                             *)
(***************************************************************************)
\* new Provider(otherDb), the constructor of the subclass run a second time
AnotherProvider ==
    /\ other = "null"
    /\ other' = "another connection"
    /\ _checkIndexExisting
    /\ UNCHANGED <<db, collection, indexes, declared, calls, ticks, stack, documents, log>>

\* ensureIndexes(callback?) called on the second instance
another_ensureIndexes(hasCb) ==
    /\ other # "null"
    /\ stack = Idle
    /\ ticks = <<>>
    /\ Len(calls) < MaxCalls
    /\ ensureIndexes_called("another", hasCb)

NextInstances ==
    \/ AbstractProvider
    \/ AnotherProvider
    \/ \E hasCb \in BOOLEAN : ensureIndexes(hasCb)
    \/ \E hasCb \in BOOLEAN : another_ensureIndexes(hasCb)
    \/ \E c \in 1..Len(calls), sync \in BOOLEAN, err \in {Null, CollectionError}, throws \in BOOLEAN :
           CollectionReply(c, sync, err, throws)
    \/ \E c \in 1..Len(calls), sync \in BOOLEAN, throws \in BOOLEAN :
           \E reply \in Replies(Method(calls[c].op)) : OperationReply(c, sync, reply, throws)
    \/ Return
    \/ \E throws \in BOOLEAN : NextTick(throws)

SpecInstances == Init /\ [][NextInstances]_vars

(***************************************************************************)
(* Properties.                                                             *)
(***************************************************************************)
Calls == 1..Len(calls)

\* The re-throws of call c still waiting in the nextTick queue.
Pending(c) == Cardinality({i \in 1..Len(ticks) : ticks[i].call = c /\ ticks[i].kind = "throw"})

\* The driver's answer to the request of the operation of a finished CRUD call:
\* the second wrapper the driver invoked for it.
Answered(r) == r.op \in Operations /\ Len(r.wrap) = 2
Answer(r) == r.wrap[2].arguments

\* C1: every public operation invokes the caller's callback exactly once per
\* call: never twice, and never zero times once the driver has completed,
\* also when the callback throws.
C1_ExactlyOneCallback ==
    \A c \in Calls :
        calls[c].op \in Operations =>
            /\ Len(calls[c].cb) <= 1
            /\ calls[c].phase = "done" => Len(calls[c].cb) = 1

\* C2: an exception thrown by the caller's completion callback never
\* propagates into the call stack of the driver function that invoked the
\* completion handler.
C2_NeverIntoDriver ==
    \A c \in Calls : calls[c].escaped # "driver"

\* C3: the wrapper returned by tick(callback) applies the callback at once to
\* the receiver and arguments it was invoked with; what the callback throws
\* never propagates to the invoker and is handed to process.nextTick exactly
\* once, where it waits or has been re-raised (never swallowed); when the
\* callback does not throw nothing is scheduled.
C3_TickDefers ==
    \A c \in Calls :
        LET r == calls[c]
            ticked == {i \in 1..Len(r.wrap) : r.wrap[i].kind = "tick"}
        IN /\ \A i \in ticked :
                  /\ r.wrap[i].applied = [this |-> r.wrap[i].this, arguments |-> r.wrap[i].arguments]
                  /\ ~r.wrap[i].propagated
                  /\ r.wrap[i].scheduled = IF r.wrap[i].threw THEN 1 ELSE 0
           /\ r.caught = Cardinality({i \in ticked : r.wrap[i].threw})
           /\ r.caught = Pending(c) + r.raised
           /\ (r.op \in Operations /\ 2 \in ticked) => Len(r.cb) = 1

\* A callback threw inside a tick() wrapper and the value has been re-raised.
C3_Witness ==
    \E c \in Calls :
        /\ calls[c].raised = 1
        /\ Len(calls[c].cb) = 1 /\ calls[c].cb[1].threw
        /\ \E i \in 1..Len(calls[c].wrap) : calls[c].wrap[i].kind = "tick" /\ calls[c].wrap[i].threw

\* The index specs the provider declared, as a list (empty when none is declared).
Declared == IF declared.isArray THEN declared.items ELSE <<>>

\* Whether every answer call r got from the driver so far was a success.
NoFailure(r) == \A i \in 1..Len(r.wrap) : ~Truthy(r.wrap[i].arguments[1])

\* Whether some ensureIndex request for the spec with key k has completed successfully.
Ensured(k) ==
    \E c \in Calls : \E j \in 1..Len(calls[c].reqs) :
        /\ calls[c].reqs[j].method = "ensureIndex"
        /\ calls[c].reqs[j].key = k
        /\ Len(calls[c].wrap) >= j + 1
        /\ ~Truthy(calls[c].wrap[j + 1].arguments[1])

\* C4: an ensureIndexes call on a provider that declares N >= 1 index specs,
\* when nothing fails, issues exactly N ensureIndex requests, in declaration
\* order, each only after the previous one was answered.
C4_IssuesAllInOrder ==
    \A c \in Calls :
        LET r == calls[c] IN
        (r.op = "ensureIndexes" /\ Len(Declared) >= 1) =>
            /\ Len(r.reqs) <= Len(r.wrap)
            /\ (r.phase = "done" /\ NoFailure(r)) =>
                   [j \in 1..Len(r.reqs) |-> r.reqs[j].key] = [i \in 1..Len(Declared) |-> Declared[i].key]

\* C5: in ensureIndexes with N declared specs the callback is invoked exactly
\* once; a failed acquisition issues no ensureIndex request and reports its
\* error; the first failed request is the last one issued and its error is
\* reported; success is reported only after the request of the N-th spec has
\* completed.
C5_FailureAbortsSuccessIsLast ==
    \A c \in Calls :
        LET r == calls[c] IN
        (r.op = "ensureIndexes" /\ Len(Declared) >= 1 /\ r.hasCb) =>
            /\ Len(r.cb) <= 1
            /\ r.phase = "done" => Len(r.cb) = 1
            /\ \A i \in 1..Len(r.wrap) :
                   Truthy(r.wrap[i].arguments[1]) =>
                       /\ i = Len(r.wrap)
                       /\ Len(r.reqs) = i - 1
                       /\ Len(r.cb) = 1 /\ r.cb[1].err = r.wrap[i].arguments[1]
            /\ (Len(r.cb) = 1 /\ ~Truthy(r.cb[1].err)) => Ensured(Declared[Len(Declared)].key)

\* C6: ensureIndexes with nothing to create sends nothing to the connection
\* and invokes the callback exactly once, with no error, on a later turn,
\* never before ensureIndexes has returned.
C6_EmptyIsDeferred ==
    \A c \in Calls :
        LET r == calls[c] IN
        (r.op = "ensureIndexes" /\ r.length = 0) =>
            /\ r.acq = <<>> /\ r.reqs = <<>> /\ r.wrap = <<>>
            /\ r.hasCb =>
                   /\ Len(r.cb) <= 1
                   /\ stack.call = c => r.cb = <<>>
                   /\ r.phase = "done" => Len(r.cb) = 1
                   /\ \A i \in 1..Len(r.cb) : ~Truthy(r.cb[i].err) /\ ~r.cb[i].inCallTurn

\* ensureIndexes(callback) on a provider that declares an empty list has completed.
C6_Witness ==
    \E c \in Calls :
        /\ calls[c].op = "ensureIndexes" /\ calls[c].hasCb
        /\ declared.isArray /\ declared.items = <<>>
        /\ calls[c].phase = "done" /\ Len(calls[c].cb) = 1

\* C7: no operation changes the provider: the connection, the collection name
\* and the declared index specs stay as they were after construction.
C7_ProviderUnchanged ==
    db # "null" => db = "connection" /\ collection = "users" /\ indexes = declared

\* Nothing is running, queued or awaited.
Quiescent ==
    /\ stack = Idle
    /\ ticks = <<>>
    /\ \A c \in Calls : calls[c].phase = "done"

\* C8: constructing a provider that declares N >= 1 index specs starts index
\* ensuring: once the system has come to rest, with or without further calls,
\* an ensureIndex request has been issued for every declared spec.
C8_ConstructionEnsuresIndexes ==
    (db # "null" /\ Len(Declared) >= 1 /\ Quiescent) =>
        \A i \in 1..Len(Declared) :
            \E c \in Calls : \E j \in 1..Len(calls[c].reqs) :
                calls[c].reqs[j].method = "ensureIndex" /\ calls[c].reqs[j].key = Declared[i].key

\* C9: findOne, findAndUpdate and findAndRemove, when the driver reports no
\* error and no document, invoke the callback with an error and no result;
\* when it reports a document, with no error and that document.
C9_NotFoundIsError ==
    \A c \in Calls :
        LET r == calls[c] IN
        (r.op \in {"findOne", "findAndUpdate", "findAndRemove"} /\ Answered(r)
            /\ ~Truthy(Answer(r)[1])) =>
            /\ Len(r.cb) = 1
            /\ IF Truthy(Answer(r)[2])
               THEN r.cb[1].err = Null /\ r.cb[1].res = Answer(r)[2]
               ELSE r.cb[1].err.t = "error" /\ r.cb[1].argc = 1 /\ r.cb[1].res = Undefined

\* findOne completed for conditions that match no document.
C9_Witness ==
    \E c \in Calls :
        /\ calls[c].op = "findOne" /\ Answered(calls[c])
        /\ Answer(calls[c]) = <<Null, Null>>
        /\ Len(calls[c].cb) = 1

\* C10: find, findOnly, count, removeOnly and aggregate never make up a
\* not-found error: when the driver reports no error they deliver no error
\* and the driver's result as it is, be it empty, null or zero.
C10_TolerantDeliverAsIs ==
    \A c \in Calls :
        LET r == calls[c] IN
        (r.op \in {"find", "findOnly", "count", "removeOnly", "aggregate"} /\ Answered(r)
            /\ ~Truthy(Answer(r)[1])) =>
            /\ Len(r.cb) = 1
            /\ r.cb[1].err = Null
            /\ r.cb[1].argc = 2
            /\ r.cb[1].res = Answer(r)[2]

\* findOnly completed for conditions that match no document.
C10_Witness ==
    \E c \in Calls :
        /\ calls[c].op = "findOnly" /\ Answered(calls[c])
        /\ Answer(calls[c]) = <<Null, Null>>
        /\ Len(calls[c].cb) = 1 /\ calls[c].cb[1].res = Null

\* C11: update, updateOne and remove treat zero affected documents as an
\* error: when the driver reports no error and a count of zero the callback
\* receives an error and no result; when it reports a count of at least one
\* the callback receives no error. Stated of every answered call, and of the
\* three completion handlers for every count the driver can report.
C11_ZeroAffectedIsError ==
    /\ \A c \in Calls :
           LET r == calls[c] IN
           (r.op \in {"update", "updateOne", "remove"} /\ Answered(r)
               /\ ~Truthy(Answer(r)[1])) =>
               /\ Len(r.cb) = 1
               /\ IF Answer(r)[2].n = 0
                  THEN r.cb[1].err.t = "error" /\ r.cb[1].argc = 1 /\ r.cb[1].res = Undefined
                  ELSE ~Truthy(r.cb[1].err)
    /\ \A op \in {"update", "updateOne", "remove"} : \A n \in Results(Method(op)) :
           LET args == Handler(op, Null, n) IN
           IF n.n = 0
           THEN Len(args) = 1 /\ args[1].t = "error"
           ELSE ~Truthy(Arg(args, 1))

\* remove completed for conditions that match no document, and update for
\* conditions that match one.
C11_Witness ==
    /\ \E c \in Calls :
           /\ calls[c].op = "remove" /\ Answered(calls[c])
           /\ Answer(calls[c]) = <<Null, Num(0)>>
           /\ Len(calls[c].cb) = 1 /\ calls[c].cb[1].err.t = "error"
    /\ \E c \in Calls :
           /\ calls[c].op = "update" /\ Answered(calls[c])
           /\ Answer(calls[c]) = <<Null, Num(1)>>
           /\ Len(calls[c].cb) = 1 /\ calls[c].cb[1].err = Null

\* C12: when the driver completes an operation of a call with an error e, that
\* answer is the last one of the call, no further driver request is issued
\* for the call, and the caller's callback receives e itself and no result.
C12_DriverErrorUnchanged ==
    \A c \in Calls :
        LET r == calls[c] IN
        \A i \in 2..Len(r.wrap) :
            Truthy(r.wrap[i].arguments[1]) =>
                /\ i = Len(r.wrap)
                /\ Len(r.reqs) = i - 1
                /\ r.phase = "done"
                /\ r.hasCb =>
                       /\ Len(r.cb) = 1
                       /\ r.cb[1].err = r.wrap[i].arguments[1]
                       /\ r.cb[1].res = Undefined

\* The driver failed a count request and a later ensureIndex request.
C12_Witness ==
    /\ \E c \in Calls :
           /\ calls[c].op = "count" /\ Answered(calls[c])
           /\ Answer(calls[c])[1] = DriverError
           /\ Len(calls[c].cb) = 1 /\ calls[c].cb[1].err = DriverError
    /\ \E c \in Calls :
           /\ calls[c].op = "ensureIndexes" /\ calls[c].hasCb
           /\ Len(calls[c].wrap) = 3 /\ calls[c].wrap[3].arguments[1] = DriverError
           /\ Len(calls[c].cb) = 1

\* C13: when acquiring the collection handle fails with an error e, the
\* operation is aborted: no driver operation is issued for the call, and the
\* caller's callback receives e itself, once.
C13_AcquisitionFailureAborts ==
    \A c \in Calls :
        LET r == calls[c] IN
        (Len(r.wrap) >= 1 /\ Truthy(r.wrap[1].arguments[1])) =>
            /\ r.reqs = <<>>
            /\ Len(r.wrap) = 1
            /\ r.phase = "done"
            /\ r.hasCb =>
                   /\ Len(r.cb) = 1
                   /\ r.cb[1].err = r.wrap[1].arguments[1]
                   /\ r.cb[1].argc = 1

\* db.collection failed for an updateOne call and for an ensureIndexes call
\* on a provider that declares index specs.
C13_Witness ==
    /\ \E c \in Calls :
           /\ calls[c].op = "updateOne"
           /\ Len(calls[c].wrap) = 1 /\ calls[c].wrap[1].arguments[1] = CollectionError
           /\ Len(calls[c].cb) = 1 /\ calls[c].cb[1].err = CollectionError
    /\ \E c \in Calls :
           /\ calls[c].op = "ensureIndexes" /\ calls[c].hasCb /\ calls[c].length > 0
           /\ Len(calls[c].wrap) = 1 /\ calls[c].wrap[1].arguments[1] = CollectionError
           /\ Len(calls[c].cb) = 1

\* The operations whose success carries a value: the others succeed by
\* callback(null), ensureIndexes by callback(undefined) or callback().
Valued == Operations \ {"update", "updateOne", "remove"}

\* C14 (as amended): every invocation of a caller's callback delivers either
\* an error and no result, or no error; with no error the value-returning
\* operations deliver a result value, and update, updateOne, remove and
\* ensureIndexes deliver none.
C14_ErrorOrOutcome ==
    \A c \in Calls : \A i \in 1..Len(calls[c].cb) :
        LET v == calls[c].cb[i] IN
        IF Truthy(v.err) THEN v.res = Undefined
        ELSE (v.res # Undefined) <=> (calls[c].op \in Valued)

\* C14 (as stated): every invocation of a caller's callback delivers exactly
\* one of an error or a result value: never both, never neither.
C14_ErrorXorResult ==
    \A c \in Calls : \A i \in 1..Len(calls[c].cb) :
        LET v == calls[c].cb[i] IN
        Truthy(v.err) <=> (v.res = Undefined)

\* update succeeded by callback(null), and find succeeded with a result.
C14_Witness ==
    /\ \E c \in Calls :
           /\ calls[c].op = "update" /\ Answered(calls[c])
           /\ Len(calls[c].cb) = 1 /\ calls[c].cb[1].err = Null
           /\ calls[c].cb[1].argc = 1 /\ calls[c].cb[1].res = Undefined
    /\ \E c \in Calls :
           /\ calls[c].op = "find" /\ Answered(calls[c])
           /\ Len(calls[c].cb) = 1 /\ calls[c].cb[1].err = Null
           /\ calls[c].cb[1].res.t = "array"

\* C15: the caller's callback is never invoked during the turn in which the
\* operation was called, whatever the driver does, also when the driver
\* invokes its completion callbacks synchronously.
C15_NeverInCallTurn ==
    \A c \in Calls : \A i \in 1..Len(calls[c].cb) : ~calls[c].cb[i].inCallTurn

Outcome(r) ==
    IF Len(r.wrap) = 1 THEN <<r.wrap[1].arguments[1]>>
    ELSE Handler(r.op, Answer(r)[1], Answer(r)[2])

\* C17: of two calls outstanding at the same time, in whatever order the
\* driver answers them, a CRUD call that finishes has had its callback
\* invoked exactly once, with the outcome of its own driver request.
C17_ConcurrentCallsIndependent ==
    [][\A c, d \in Calls :
          (/\ c # d
           /\ calls[c].op \in Operations
           /\ calls[c].phase # "done" /\ calls[d].phase # "done"
           /\ calls'[c].phase = "done") =>
              /\ Len(calls'[c].cb) = 1
              /\ calls'[c].cb[1].err = Arg(Outcome(calls'[c]), 1)
              /\ calls'[c].cb[1].res = Arg(Outcome(calls'[c]), 2)
              /\ calls'[d] = calls[d]]_vars

Removed(i) ==
    /\ log[i].call # 0
    /\ calls[log[i].call].op = "remove"
    /\ log[i].matched >= 1

\* Whether the j-th request the collection executed was that of a findOne
\* call, with no write to the collection since the i-th.
FoundAfter(i, j) ==
    /\ i < j
    /\ log[j].call # 0
    /\ calls[log[j].call].op = "findOne"
    /\ \A k \in (i + 1)..(j - 1) : log[k].method \notin Writes

\* C19: a remove whose conditions match at least one document completes with
\* no error, and a findOne with the same conditions executed after it, with
\* no other write to the collection in between, completes with a not-found
\* error and no document.
C19_RemovedIsNotFound ==
    \A i \in 1..Len(log) :
        Removed(i) =>
            /\ LET r == calls[log[i].call] IN
               Len(r.cb) = 1 /\ r.cb[1].err = Null /\ r.cb[1].res = Undefined
            /\ \A j \in 1..Len(log) :
                   FoundAfter(i, j) =>
                       LET f == calls[log[j].call] IN
                       /\ Len(f.cb) = 1
                       /\ f.cb[1].err.t = "error"
                       /\ f.cb[1].res = Undefined

\* remove deleted MaxDocs documents and completed; a findOne called after
\* that completion was executed next and has completed.
C19_Witness ==
    \E c, d \in Calls :
        /\ c < d
        /\ calls[c].op = "remove" /\ calls[d].op = "findOne"
        /\ Len(log) = 2
        /\ log[1] = [call |-> c, method |-> "remove", matched |-> MaxDocs]
        /\ log[2].call = d
        /\ calls[c].cb[1].err = Null
        /\ calls[d].phase = "done" /\ calls[d].cb[1].err.t = "error"

\* C20: an updateOne call that got its collection handle issues exactly one
\* driver update request, with the caller's options laid over the default
\* {w: 1} (the default alone when none are given) and without multi-document
\* mode, and then completes through the caller's callback exactly once.
C20_UpdateOneMergesOptions ==
    \A c \in Calls :
        LET r == calls[c] IN
        (r.op = "updateOne" /\ Len(r.wrap) >= 1 /\ ~Truthy(r.wrap[1].arguments[1])) =>
            /\ Len(r.reqs) = 1
            /\ r.reqs[1].method = "update"
            /\ r.reqs[1].options = Assign([w |-> 1], NoOptions)
            /\ "multi" \notin DOMAIN r.reqs[1].options
            /\ Len(r.cb) <= 1
            /\ r.phase = "done" => Len(r.cb) = 1


\* Whether ensureIndexes call r has reported success: its callback was invoked
\* with no error.
Succeeded(r) ==
    r.op = "ensureIndexes" /\ \E i \in 1..Len(r.cb) : ~Truthy(r.cb[i].err)

\* C21: whenever an ensureIndexes call reports success, an ensureIndex request
\* has completed successfully for every index spec the provider declared, also
\* when the call overlaps an earlier call or repeats a call that failed.
C21_SuccessMeansAllEnsured ==
    \A c \in Calls :
        Succeeded(calls[c]) => \A i \in 1..Len(Declared) : Ensured(Declared[i].key)

\* The ensureIndexes calls with an ensureIndex request issued and not yet answered.
Outstanding ==
    {c \in Calls : calls[c].op = "ensureIndexes" /\ calls[c].phase = "operating"}

\* C22: at any moment at most one ensureIndex request of the provider is
\* outstanding, also when ensureIndexes is called again before an earlier
\* call has completed.
C22_OneRequestOutstanding == Cardinality(Outstanding) <= 1

\* The connection held by the instance that call r was made on: its
\* _getCollection request goes to this.db.
Connection(r) == IF r.this = "another" THEN other ELSE db

\* C23: index ensuring on one instance is independent of every other instance
\* of the same subclass: an ensureIndexes call on an instance on which no other
\* ensureIndexes call was made issues, when nothing fails, an ensureIndex
\* request for each of the N declared specs, in order, on the collection handle
\* it acquired from its own connection, whatever calls the other instance made.
C23_InstancesIndependent ==
    \A c \in Calls :
        LET r == calls[c] IN
        (/\ r.op = "ensureIndexes"
         /\ Len(Declared) >= 1
         /\ \A d \in Calls \ {c} : calls[d].this # r.this) =>
            /\ Connection(r) # "null"
            /\ \A j \in 1..Len(r.reqs) : r.reqs[j].handle = Handle(c)
            /\ (r.phase = "done" /\ NoFailure(r)) =>
                   [j \in 1..Len(r.reqs) |-> r.reqs[j].key] = [i \in 1..Len(Declared) |-> Declared[i].key]

\* The options ensureIndexes forces on every ensureIndex request.
Forced == {"w", "background"}

\* C24: every ensureIndex request issued by ensureIndexes carries the key
\* pattern of a declared spec and that spec's options with w = 1 and
\* background = true, whatever the declaration gave for these two, and with
\* every other declared option as declared.
C24_ForcedOptions ==
    \A c \in Calls : \A j \in 1..Len(calls[c].reqs) :
        LET request == calls[c].reqs[j] IN
        request.method = "ensureIndex" =>
            \E i \in 1..Len(Declared) :
                /\ request.key = Declared[i].key
                /\ DOMAIN request.options = (DOMAIN Declared[i].options) \cup Forced
                /\ request.options.w = 1
                /\ request.options.background = TRUE
                /\ \A k \in (DOMAIN Declared[i].options) \ Forced :
                       request.options[k] = Declared[i].options[k]

\* An ensureIndex request was issued for a spec declared with w = 0,
\* background = false and a further option.
C24_Witness ==
    \E c \in Calls : \E j \in 1..Len(calls[c].reqs) : \E i \in 1..Len(Declared) :
        /\ calls[c].reqs[j].method = "ensureIndex"
        /\ calls[c].reqs[j].key = Declared[i].key
        /\ Forced \subseteq DOMAIN Declared[i].options
        /\ Declared[i].options.w # 1
        /\ Declared[i].options.background # TRUE
        /\ DOMAIN Declared[i].options # Forced
====
